---- MODULE Spec2Model ----
(***************************************************************************)
(* rels (src/main.rs): for every recent tag of a repository, walk the      *)
(* ancestors of the tag's target up to a depth, attribute each commit to   *)
(* the nearest tag, and print the tags with their commits.                 *)
(*                                                                         *)
(* The repository is the input: a commit graph (parent lists), the set of  *)
(* commit objects the object database holds, commit timestamps and         *)
(* messages, and the tags in enumeration order (the result of get_tags).   *)
(* A commit id is a number, and the map's key, the id as a string, is the  *)
(* id. A message is the list of the matches the pattern has in it.         *)
(*                                                                         *)
(* SpecWalk and SpecWalkFair run get_parent_commits alone, iteration by    *)
(* iteration. The other specifications run get_tag_commits (SpecTie,       *)
(* SpecFilter) or the whole of main on families of repositories and flags; *)
(* there one action is one iteration of a for loop.                        *)
(***************************************************************************)
EXTENDS Integers, Sequences, FiniteSets, TLC

VARIABLES
    parents,        \* repository: commit id -> sequence of parent ids
    odb,            \* repository: the commit ids repo.find_commit finds
    ctime,          \* repository: commit id -> commit.time().seconds()
    message,        \* repository: commit id -> commit.message()
    tags,           \* get_tags(): the tags in enumeration order
    args,           \* Args: depth, all, jira_regex (compiles or not), filter
    now,            \* SystemTime::now() in seconds
    max_age,        \* duration_str::parse(&args.age).unwrap_or_default()
    build,          \* "debug" | "release": overflow checks on or off
    wstart,         \* get_parent_commits: the commit argument
    wmax,           \* get_parent_commits: max_depth
    walk,           \* get_parent_commits: commit_ids_to_check, depths, commits
    commit_to_tag,  \* get_tag_commits: the attribution map
    tag_names,      \* get_tag_commits: the tag names pushed so far
    ti,             \* get_tag_commits: index of the next tag of the for loop
    pc,             \* position of the program
    exit_code,      \* process exit code (-1 while running)
    err,            \* the TagCommitsError of get_tag_commits, or "none"
    stdout          \* the lines printed so far

vars == <<parents, odb, ctime, message, tags, args, now, max_age, build,
          wstart, wmax, walk, commit_to_tag, tag_names, ti, pc, exit_code,
          err, stdout>>

repoVars == <<parents, odb, ctime, message, tags, args, now, max_age, build>>
walkVars == <<wstart, wmax, walk>>
mainVars == <<commit_to_tag, tag_names, ti, pc, exit_code, err, stdout>>

(***************************************************************************)
(* Bounds of the model.                                                    *)
(***************************************************************************)
NC == 4             \* commits of the repository: 1..NC
MaxParents == 2     \* parents of one commit
MaxDepth == 3       \* largest --depth tried
NA == 3             \* commits the histories of the tags are made of: 1..NA
MaxTags == 2        \* tags of the repository
MaxAge == 2         \* largest --age tried, in seconds

Commits == 1..NC

Range(s) == {s[k] : k \in DOMAIN s}

Last(s) == s[Len(s)]

\* The sequences over S of length at most n that repeat no element.
SeqsNoRep(S, n) ==
    {s \in UNION {[1..k -> S] : k \in 0..n} :
        \A a, b \in DOMAIN s : a # b => s[a] # s[b]}

\* A commit's parents are older commits: ids are numbered so that every
\* parent has a larger id than its child, which makes every graph acyclic.
\* In a graph on n, the commits above n have no parents and no children.
ParentSeqs(c, n) == SeqsNoRep((c + 1)..n, MaxParents)

RECURSIVE GraphsFrom(_, _)
GraphsFrom(c, n) ==
    IF c > NC THEN {<<>>}
    ELSE {<<ps>> \o g : ps \in ParentSeqs(c, n), g \in GraphsFrom(c + 1, n)}

GraphsOn(n) == GraphsFrom(1, n)

Graphs == GraphsOn(NC)

(***************************************************************************)
(* get_parent_commits (main.rs 95-130)                                     *)
(***************************************************************************)

\* HashMap::get(..).unwrap_or(&1) of line 113.
DepthOf(depths, id) == IF id \in DOMAIN depths THEN depths[id] ELSE 1

\* HashMap::insert for every id of ps (lines 120-122): overwrites.
InsertAll(depths, ps, d) ==
    [id \in DOMAIN depths \cup Range(ps) |->
        IF id \in Range(ps) THEN d ELSE depths[id]]

\* The test of line 115 with the bound off by one.
DepthExceedsOff(depth, max_depth) == depth > max_depth + 1

\* The test of line 115.
DepthExceeds(depth, max_depth) == depth > max_depth

\* NextToCheck of a loop that reads the last id and removes it only when it
\* expands it: an id over the depth stays on the worklist.
NextToCheckKeep(to_check, exceeded, ps) ==
    IF exceeded THEN to_check
    ELSE SubSeq(to_check, 1, Len(to_check) - 1) \o ps

\* commit_ids_to_check after one iteration: the popped id is gone (line 108)
\* and, unless the iteration ended at the continue of line 116, the parents
\* of the popped commit are appended (line 119).
NextToCheck(to_check, exceeded, ps) ==
    IF exceeded THEN SubSeq(to_check, 1, Len(to_check) - 1)
    ELSE SubSeq(to_check, 1, Len(to_check) - 1) \o ps

\* Lines 100-106: the locals before the loop.
WalkInit(commit) ==
    [commit_ids_to_check |-> parents[commit],
     depths |-> [id \in Range(parents[commit]) |-> 1],
     commits |-> <<>>,
     pc |-> "loop"]

\* One iteration of the while loop (lines 108-128) from w, whose
\* commit_ids_to_check is not empty.
WalkStep(w, max_depth) ==
    LET parent_id == Last(w.commit_ids_to_check)
        depth == DepthOf(w.depths, parent_id)
        exceeded == DepthExceeds(depth, max_depth)
    IN  IF parent_id \notin odb
        THEN \* .expect("repo should contain commit") panics
             [w EXCEPT !.commit_ids_to_check = SubSeq(@, 1, Len(@) - 1),
                       !.pc = "panic"]
        ELSE IF exceeded
        THEN [w EXCEPT !.commit_ids_to_check =
                            NextToCheck(@, TRUE, parents[parent_id])]
        ELSE [w EXCEPT !.commit_ids_to_check =
                            NextToCheck(@, FALSE, parents[parent_id]),
                       !.depths = InsertAll(@, parents[parent_id], depth + 1),
                       !.commits = Append(@, [commit |-> parent_id,
                                              depth |-> depth])]

\* The loop run to its end: pc is "returned" (line 129) or "panic".
RECURSIVE WalkRun(_, _)
WalkRun(w, max_depth) ==
    IF w.pc = "panic" THEN w
    ELSE IF w.commit_ids_to_check = <<>> THEN [w EXCEPT !.pc = "returned"]
    ELSE WalkRun(WalkStep(w, max_depth), max_depth)

get_parent_commits(commit, max_depth) == WalkRun(WalkInit(commit), max_depth)

(***************************************************************************)
(* The walker alone: get_parent_commits on every graph, start and depth.   *)
(***************************************************************************)
Idle == [commit_ids_to_check |-> <<>>, depths |-> <<>>, commits |-> <<>>,
         pc |-> "idle"]

InitWalk ==
    /\ parents \in Graphs
    /\ odb = Commits
    /\ ctime = [c \in Commits |-> 0]
    /\ message = [c \in Commits |-> [utf8 |-> TRUE, tickets |-> <<>>]]
    /\ tags = <<>>
    /\ args = [depth |-> 0, all |-> FALSE, regex_ok |-> TRUE, filter |-> <<>>,
               has_filter |-> FALSE]
    /\ now = 0
    /\ max_age = 0
    /\ build = "release"
    /\ wstart \in Commits
    /\ wmax \in 0..MaxDepth
    /\ walk = WalkInit(wstart)
    /\ commit_to_tag = <<>>
    /\ tag_names = <<>>
    /\ ti = 1
    /\ pc = "walk"
    /\ exit_code = -1
    /\ err = "none"
    /\ stdout = <<>>

\* An iteration that pushes the popped commit (lines 119-127).
WalkExpand ==
    /\ pc = "walk"
    /\ walk.pc = "loop"
    /\ walk.commit_ids_to_check # <<>>
    /\ Last(walk.commit_ids_to_check) \in odb
    /\ ~DepthExceeds(DepthOf(walk.depths, Last(walk.commit_ids_to_check)), wmax)
    /\ walk' = WalkStep(walk, wmax)
    /\ UNCHANGED <<repoVars, wstart, wmax, mainVars>>

\* An iteration that ends at the continue of line 116.
WalkDiscard ==
    /\ pc = "walk"
    /\ walk.pc = "loop"
    /\ walk.commit_ids_to_check # <<>>
    /\ Last(walk.commit_ids_to_check) \in odb
    /\ DepthExceeds(DepthOf(walk.depths, Last(walk.commit_ids_to_check)), wmax)
    /\ walk' = WalkStep(walk, wmax)
    /\ UNCHANGED <<repoVars, wstart, wmax, mainVars>>

\* The worklist is empty: return commits (line 129).
WalkReturn ==
    /\ pc = "walk"
    /\ walk.pc = "loop"
    /\ walk.commit_ids_to_check = <<>>
    /\ walk' = [walk EXCEPT !.pc = "returned"]
    /\ UNCHANGED <<repoVars, wstart, wmax, mainVars>>

NextWalk == WalkExpand \/ WalkDiscard \/ WalkReturn

SpecWalk == InitWalk /\ [][NextWalk]_vars

\* The loop is sequential code: it runs until it returns.
SpecWalkFair == InitWalk /\ [][NextWalk]_vars /\ WF_vars(NextWalk)

(***************************************************************************)
(* Strings are sequences of character codes.                               *)
(***************************************************************************)

\* str::contains (lines 317, 326).
Contains(s, sub) ==
    \E k \in 0..(Len(s) - Len(sub)) : SubSeq(s, k + 1, k + Len(sub)) = sub

\* The order of String: lexicographic, a proper prefix first.
StrLeq(a, b) ==
    \/ /\ Len(a) <= Len(b)
       /\ a = SubSeq(b, 1, Len(a))
    \/ \E k \in 1..Len(a) :
        /\ k <= Len(b)
        /\ SubSeq(a, 1, k - 1) = SubSeq(b, 1, k - 1)
        /\ a[k] < b[k]

\* Vec::sort (line 208), as an insertion sort: the result is the sorted
\* permutation whichever algorithm computes it.
RECURSIVE InsertSorted(_, _)
InsertSorted(s, x) ==
    IF s = <<>> THEN <<x>>
    ELSE IF StrLeq(Last(s), x) THEN Append(s, x)
    ELSE Append(InsertSorted(SubSeq(s, 1, Len(s) - 1), x), Last(s))

\* The names left in the order of enumeration.
SortNamesNot(names) == names

RECURSIVE SortNames(_)
SortNames(names) ==
    IF names = <<>> THEN <<>>
    ELSE InsertSorted(SortNames(SubSeq(names, 1, Len(names) - 1)), Last(names))

\* "x".bold().italic() (line 228): the text between the escape sequences
\* that switch the style on (code 27, 1) and off (code 27, 0).
Emphasized(ticket) == <<27, 1>> \o ticket \o <<27, 0>>

\* .join(", ") (line 232): 44 is the comma, 32 the space.
RECURSIVE Join(_)
Join(strs) ==
    IF strs = <<>> THEN <<>>
    ELSE IF Len(strs) = 1 THEN strs[1]
    ELSE strs[1] \o <<44, 32>> \o Join(Tail(strs))

\* "(no tickets)".dimmed() (line 235): 40 and 41 are the brackets, 2 the
\* dimmed style; the placeholder's letters are one code, 110.
NoTickets == <<27, 2, 40, 110, 41, 27, 0>>

\* Lines 225-238. tickets are the matches regex.find_iter finds in the
\* message, in order.
FormattedTickets(tickets) ==
    LET joined == Join([k \in DOMAIN tickets |-> Emphasized(tickets[k])])
    IN  IF joined = <<>> THEN NoTickets ELSE joined

(***************************************************************************)
(* commit_is_within_duration (main.rs 132-141)                             *)
(***************************************************************************)

\* The u64 of line 137 wraps at 2^64. TLC's integers are narrower, so the
\* model's word wraps at 2^30; every time of the model is far below it.
U64 == 1073741824

\* commit_time as u64 (line 137).
AsU64(t) == IF t >= 0 THEN t ELSE U64 + t

\* now_seconds - commit_time as u64 (line 137): "overflow" when the
\* subtraction leaves the u64 range, which a build with overflow checks
\* turns into a panic and a build without them wraps.
SubU64(a, b) ==
    IF a >= b THEN [overflow |-> FALSE, value |-> a - b]
    ELSE [overflow |-> TRUE, value |-> U64 - (b - a)]

\* The comparison of line 138.
WithinAge(diff_seconds, age) == diff_seconds < age

\* "panic" | "within" | "older". A clock before the epoch (now < 0 here)
\* makes duration_since fail, and the function returns true (line 140).
commit_is_within_duration(commit) ==
    IF now < 0 THEN "within"
    ELSE LET diff == SubU64(now, AsU64(ctime[commit]))
         IN  IF diff.overflow /\ build = "debug" THEN "panic"
             ELSE IF WithinAge(diff.value, max_age) THEN "within"
             ELSE "older"

(***************************************************************************)
(* add_if_matches_regex (main.rs 213-271)                                  *)
(***************************************************************************)

\* The condition of line 258 without its --all half.
ShouldInsertOnlyMatch(is_match, all) == is_match

\* The condition of line 258.
ShouldInsert(is_match, all) == is_match \/ all

\* HashMap::insert (line 259).
MapInsert(map, key, value) ==
    [k \in DOMAIN map \cup {key} |-> IF k = key THEN value ELSE map[k]]

\* Ok(()) with the map after the call, or Err when the pattern does not
\* compile (line 220). The key is the commit id; formatted_urls, which
\* only the printed commit lines read, is left out.
add_if_matches_regex(commit, map, depth, tag_name) ==
    IF ~args.regex_ok THEN [ok |-> FALSE, map |-> map]
    ELSE IF ~message[commit].utf8 THEN [ok |-> TRUE, map |-> map]
    ELSE IF ShouldInsert(message[commit].tickets # <<>>, args.all)
    THEN [ok |-> TRUE,
          map |-> MapInsert(map, commit,
            [depth |-> depth,
             tag_name |-> tag_name,
             formatted_tickets |-> FormattedTickets(message[commit].tickets)])]
    ELSE [ok |-> TRUE, map |-> map]

(***************************************************************************)
(* get_tag_commits (main.rs 161-211) and main (281-358)                    *)
(***************************************************************************)

\* A loop without the test of lines 192-196: the last report wins.
TieBreakSkipNever(map, id, parent_depth) == FALSE

\* The test of lines 192-196: the walked commit is skipped.
TieBreakSkip(map, id, parent_depth) ==
    id \in DOMAIN map /\ map[id].depth < parent_depth

\* The for loop of lines 188-205 over the walker's list, from entry k; res
\* is the result so far, and an Err ends the loop (the ? of line 204).
RECURSIVE AddParents(_, _, _, _)
AddParents(res, list, k, tag_name) ==
    IF ~res.ok \/ k > Len(list) THEN res
    ELSE IF TieBreakSkip(res.map, list[k].commit, list[k].depth)
    THEN AddParents(res, list, k + 1, tag_name)
    ELSE AddParents(
            add_if_matches_regex(list[k].commit, res.map, list[k].depth,
                                 tag_name),
            list, k + 1, tag_name)

\* The process ends: main's error arm (lines 288-301) exits with 1, a panic
\* with 101.
Exit(code, e) ==
    /\ pc' = "done"
    /\ exit_code' = code
    /\ err' = e

\* One iteration of the for loop of line 175, for tag tags[ti].
ProcessTag ==
    /\ pc = "tags"
    /\ ti <= Len(tags)
    /\ LET tag == tags[ti]
           within == commit_is_within_duration(tag.target)
           direct == add_if_matches_regex(tag.target, commit_to_tag, 0,
                                          tag.name)
           walked == get_parent_commits(tag.target, args.depth)
           added == AddParents(direct, walked.commits, 1, tag.name)
       IN  IF ~tag.named                                    \* line 176
           THEN Exit(1, "NoTags")
                /\ UNCHANGED <<tag_names, commit_to_tag, ti>>
           ELSE /\ tag_names' = Append(tag_names, tag.name)  \* line 177
                /\ IF tag.target \notin odb                 \* line 179
                   THEN Exit(1, "Git") /\ UNCHANGED <<commit_to_tag, ti>>
                   ELSE IF within = "panic"
                   THEN Exit(101, "panic")
                        /\ UNCHANGED <<commit_to_tag, ti>>
                   ELSE IF within = "older"                 \* line 180-182
                   THEN /\ ti' = ti + 1
                        /\ UNCHANGED <<commit_to_tag, pc, exit_code, err>>
                   ELSE IF ~direct.ok                       \* line 185
                   THEN Exit(1, "Regex")
                        /\ UNCHANGED <<commit_to_tag, ti>>
                   ELSE IF walked.pc = "panic"              \* line 187
                   THEN Exit(101, "panic")
                        /\ UNCHANGED <<commit_to_tag, ti>>
                   ELSE IF ~added.ok                        \* line 198-204
                   THEN Exit(1, "Regex")
                        /\ UNCHANGED <<commit_to_tag, ti>>
                   ELSE /\ commit_to_tag' = added.map
                        /\ ti' = ti + 1
                        /\ UNCHANGED <<pc, exit_code, err>>
    /\ UNCHANGED <<repoVars, walkVars, stdout>>

\* Lines 208-210 and 286-287: the names are sorted and main has the result.
ReturnSorted ==
    /\ pc = "tags"
    /\ ti > Len(tags)
    /\ tag_names' = SortNames(tag_names)
    /\ pc' = "report"
    /\ ti' = 1
    /\ UNCHANGED <<repoVars, walkVars, commit_to_tag, exit_code, err, stdout>>

\* tag_to_commits.get(&tag_name) (lines 304-315): the commits of the map
\* whose record names the tag.
CommitsOfTag(tag_name) ==
    {c \in DOMAIN commit_to_tag : commit_to_tag[c].tag_name = tag_name}

\* Lines 316-320.
TagMatchesFilter(tag_name) ==
    IF args.has_filter THEN Contains(tag_name, args.filter) ELSE TRUE

\* Lines 322-331.
FilteredCommits(tag_name) ==
    {c \in CommitsOfTag(tag_name) :
        IF args.has_filter
        THEN \/ TagMatchesFilter(tag_name)
             \/ Contains(commit_to_tag[c].formatted_tickets, args.filter)
        ELSE TRUE}

\* The test of line 333: the tag prints nothing.
SkipTag(tag_name) ==
    /\ args.has_filter
    /\ ~TagMatchesFilter(tag_name)
    /\ FilteredCommits(tag_name) = {}

\* The header of lines 337-344.
Header(tag_name) ==
    [kind |-> "header",
     tag |-> tag_name,
     no_entries |-> FilteredCommits(tag_name) = {}]

\* One iteration of the for loop of line 313, for tag_names[ti]. The commit
\* lines follow the header in the order the HashMap fold left them, which
\* is any order.
ReportTag ==
    /\ pc = "report"
    /\ ti <= Len(tag_names)
    /\ LET tag_name == tag_names[ti]
           shown == FilteredCommits(tag_name)
       IN  IF SkipTag(tag_name)
           THEN UNCHANGED stdout
           ELSE \E order \in SeqsNoRep(shown, Cardinality(shown)) :
                    /\ Len(order) = Cardinality(shown)
                    /\ stdout' = stdout \o <<Header(tag_name)>> \o
                            [k \in DOMAIN order |->
                                [kind |-> "commit",
                                 text |-> commit_to_tag[order[k]]
                                                .formatted_tickets]]
    /\ ti' = ti + 1
    /\ UNCHANGED <<repoVars, walkVars, commit_to_tag, tag_names, pc,
                   exit_code, err>>

\* main returns after the last tag: exit code 0.
MainReturn ==
    /\ pc = "report"
    /\ ti > Len(tag_names)
    /\ pc' = "done"
    /\ exit_code' = 0
    /\ UNCHANGED <<repoVars, walkVars, commit_to_tag, tag_names, ti, err,
                   stdout>>

Next == ProcessTag \/ ReturnSorted \/ ReportTag \/ MainReturn

(***************************************************************************)
(* The inputs of a run.                                                    *)
(***************************************************************************)

\* Tag names "v1" < "v10" < "v2" < "v3", in the order of String.
TagNameSeq == <<(<<118, 49>>), (<<118, 49, 48>>), (<<118, 50>>),
                (<<118, 51>>)>>

\* Messages: not UTF-8 (message() is None), no ticket, one ticket "A1",
\* two tickets "A1" and "A2".
NotUtf8 == [utf8 |-> FALSE, tickets |-> <<>>]
Plain == [utf8 |-> TRUE, tickets |-> <<>>]
Ticketed == [utf8 |-> TRUE, tickets |-> <<(<<65, 49>>)>>]
TwoTickets == [utf8 |-> TRUE, tickets |-> <<(<<65, 49>>), (<<65, 50>>)>>]

\* The clock of the run, and a commit time within every --age of the model.
Now == MaxAge + 2
Recent == Now - 1

NoFilter == [has_filter |-> FALSE, filter |-> <<>>]

\* The orders in which a repository may enumerate the tags of list.
Orders(list) ==
    {[k \in DOMAIN list |-> list[perm[k]]] :
        perm \in {q \in [DOMAIN list -> DOMAIN list] :
                    \A a, b \in DOMAIN list : a # b => q[a] # q[b]}}

\* The tag lists of at most MaxTags tags with readable names on the commits
\* 1..NA, in every enumeration order. The names are different, and the
\* tags are named in the order of their targets.
TargetLists(n) ==
    {t \in [1..n -> 1..NA] : \A a, b \in 1..n : a <= b => t[a] <= t[b]}

TagList(targets) ==
    [k \in DOMAIN targets |->
        [name |-> TagNameSeq[k], named |-> TRUE, target |-> targets[k]]]

NamedTagLists ==
    UNION {Orders(TagList(t)) : t \in UNION {TargetLists(n) : n \in 0..MaxTags}}

InitMain(graphs, odbs, times, msgs, taglists, argsets, nows, ages, builds) ==
    /\ parents \in graphs
    /\ odb \in odbs
    /\ ctime \in times
    /\ message \in msgs
    /\ tags \in taglists
    /\ args \in argsets
    /\ now \in nows
    /\ max_age \in ages
    /\ build \in builds
    /\ wstart = 1
    /\ wmax = 0
    /\ walk = Idle
    /\ commit_to_tag = <<>>
    /\ tag_names = <<>>
    /\ ti = 1
    /\ pc = "tags"
    /\ exit_code = -1
    /\ err = "none"
    /\ stdout = <<>>

Flags(depths, alls, regex_oks, filters) ==
    {[depth |-> d, all |-> a, regex_ok |-> r,
      has_filter |-> f.has_filter, filter |-> f.filter] :
        d \in depths, a \in alls, r \in regex_oks, f \in filters}

\* The linear history 1 -> 2 -> ... -> NA.
Chain == [c \in Commits |-> IF c < NA THEN <<c + 1>> ELSE <<>>]

\* The linear history whose head is a merge of its two next commits.
Merge == [c \in Commits |-> IF c = 1 /\ NA >= 3 THEN <<2, 3>> ELSE Chain[c]]

AllRecent == [c \in Commits |-> Recent]
AllTicketed == [c \in Commits |-> Ticketed]

\* get_tag_commits alone.
NextAttr == ProcessTag \/ ReturnSorted

\* get_tag_commits on recent tags: every graph on 1..NA, every tag list and
\* every --depth up to the longest path of such a graph (a larger --depth
\* cuts nothing more); every commit has a ticket, or all but commit 2 do.
InitTie ==
    InitMain(GraphsOn(NA), {Commits}, {AllRecent},
             {AllTicketed,
              [c \in Commits |-> IF c = 2 THEN Plain ELSE Ticketed]},
             NamedTagLists,
             Flags(0..(NA - 1), {FALSE}, {TRUE}, {NoFilter}),
             {Now}, {MaxAge}, {"release"})

SpecTie == InitTie /\ [][NextAttr]_vars

\* get_tag_commits on every assignment of messages to the commits 1..NA,
\* with --all on and off, on a linear history and on one with a merge.
InitFilter ==
    InitMain({Chain, Merge}, {Commits}, {AllRecent},
             {[c \in Commits |-> IF c <= NA THEN m[c] ELSE Plain] :
                    m \in [1..NA -> {NotUtf8, Plain, Ticketed}]},
             NamedTagLists,
             Flags({0, MaxDepth}, BOOLEAN, {TRUE}, {NoFilter}),
             {Now}, {MaxAge}, {"release"})

SpecFilter == InitFilter /\ [][NextAttr]_vars

\* The whole run on tags of every age: commit times from before the epoch
\* to after now, --age 0 and MaxAge, with and without overflow checks.
InitRecency ==
    InitMain({Chain}, {Commits},
             {[c \in Commits |-> IF c <= NA THEN t[c] ELSE Recent] :
                    t \in [1..NA -> (-1)..(Now + 1)]},
             {AllTicketed},
             NamedTagLists,
             Flags({MaxDepth}, {FALSE}, {TRUE}, {NoFilter}),
             {Now}, {0, MaxAge}, {"debug", "release"})

SpecRecency == InitRecency /\ [][Next]_vars

\* The whole run with a pattern that compiles or does not, on tags that are
\* recent or too old.
InitPattern ==
    InitMain({Chain, Merge}, {Commits},
             {[c \in Commits |-> IF c \in old THEN 0 ELSE Recent] :
                    old \in SUBSET (1..NA)},
             {AllTicketed, [c \in Commits |-> Plain]},
             NamedTagLists,
             Flags({0, MaxDepth}, BOOLEAN, BOOLEAN, {NoFilter}),
             {Now}, {MaxAge}, {"release"})

SpecPattern == InitPattern /\ [][Next]_vars

\* The whole run on repositories that may lack one commit object.
InitMissing ==
    InitMain(GraphsOn(NA),
             {Commits \ {x} : x \in 0..NA},
             {AllRecent}, {AllTicketed},
             NamedTagLists,
             Flags(0..MaxDepth, {FALSE}, {TRUE}, {NoFilter}),
             {Now}, {MaxAge}, {"release"})

SpecMissing == InitMissing /\ [][Next]_vars

\* --filter values: "0", "1", "2", the "n" of the no-tickets text, and "x", which
\* is in no tag name and no ticket text.
Filters ==
    {NoFilter} \cup {[has_filter |-> TRUE, filter |-> <<ch>>] :
                        ch \in {48, 49, 50, 110, 120}}

\* The whole run with and without --filter and --all, on a linear history
\* whose first commit may be too old, with commits of no, one or two tickets.
InitReport ==
    InitMain({Chain}, {Commits},
             {[c \in Commits |-> IF c = x THEN 0 ELSE Recent] : x \in 0..1},
             {[c \in Commits |-> IF c = x THEN Plain
                                 ELSE IF c = y THEN TwoTickets
                                 ELSE Ticketed] : x, y \in 0..NA},
             NamedTagLists,
             Flags({MaxDepth}, BOOLEAN, {TRUE}, Filters),
             {Now}, {MaxAge}, {"release"})

SpecReport == InitReport /\ [][Next]_vars

(***************************************************************************)
(* Claims about the walker, checked under SpecWalk and SpecWalkFair.       *)
(***************************************************************************)

\* The lengths of the parent paths from commit a to commit b.
RECURSIVE PathLens(_, _)
PathLens(a, b) ==
    IF a = b THEN {0}
    ELSE UNION {{n + 1 : n \in PathLens(parents[a][k], b)} :
                    k \in DOMAIN parents[a]}

Returned == pc = "walk" /\ walk.pc = "returned"

Emitted == {walk.commits[k].commit : k \in DOMAIN walk.commits}

\* C2: when get_parent_commits has returned, every commit that a parent
\* path of 1..max_depth hops reaches from the start commit is in the list.
C2_WalkerComplete ==
    Returned =>
        \A c \in Commits :
            (\E n \in PathLens(wstart, c) : 1 <= n /\ n <= wmax)
                => c \in Emitted

\* C3: the list get_parent_commits returns holds no commit twice.
C3_WalkerUnique ==
    Returned =>
        \A a, b \in DOMAIN walk.commits :
            a # b => walk.commits[a].commit # walk.commits[b].commit

\* C10: the worklist loop of get_parent_commits ends: the walker returns.
C10_Terminates == <>(walk.pc = "returned")

\* A walk has returned after it scheduled one commit again: the commit was
\* popped more than once, with no visited set to stop it.
C10_Witness ==
    /\ Returned
    /\ \E a, b \in DOMAIN walk.commits :
        a < b /\ walk.commits[a].commit = walk.commits[b].commit

(***************************************************************************)
(* Claims about get_tag_commits and main.                                  *)
(***************************************************************************)

\* The tag is not skipped by the recency filter of lines 180-182.
TagRetained(tag) == commit_is_within_duration(tag.target) = "within"

\* The list the walk of each tag returns.
WalkLists ==
    [b \in DOMAIN tags |->
        get_parent_commits(tags[b].target, args.depth).commits]

\* The depths at which tag b reports commit c: 0 when c is its target, and
\* the depths of c in lists[b], the list its walk returns.
ReportsIn(lists, b, c) ==
    (IF tags[b].target = c THEN {0} ELSE {})
        \cup {lists[b][k].depth :
                k \in {j \in DOMAIN lists[b] : lists[b][j].commit = c}}

\* reports[b][c]: the depths at which tag b reports commit c.
AllReports ==
    CHOOSE reports \in
        {[b \in DOMAIN tags |-> [c \in Commits |-> ReportsIn(lists, b, c)]] :
            lists \in {WalkLists}} : TRUE

MinOf(S) == CHOOSE m \in S : \A x \in S : m <= x

\* The message of c can be read and has a match, or --all is given.
PassesFilter(c) ==
    message[c].utf8 /\ (message[c].tickets # <<>> \/ args.all)

\* Tag b reports c at a depth below every depth another retained tag
\* reports for it.
StrictlyNearest(reports, b, c) ==
    /\ TagRetained(tags[b])
    /\ reports[b][c] # {}
    /\ \A a \in DOMAIN tags \ {b} :
        TagRetained(tags[a]) =>
            \A d \in reports[a][c] : MinOf(reports[b][c]) < d

\* C1: when get_tag_commits has finished, a commit that passes the message
\* filter and that one tag reports at a strictly smaller depth than every
\* other tag is recorded with that tag and that depth, in whichever order
\* the tags were enumerated.
C1_NearestWins ==
    pc = "report" =>
        \A reports \in {AllReports} :
            \A b \in DOMAIN tags, c \in Commits :
                (PassesFilter(c) /\ StrictlyNearest(reports, b, c)) =>
                    /\ c \in DOMAIN commit_to_tag
                    /\ commit_to_tag[c].tag_name = tags[b].name
                    /\ commit_to_tag[c].depth = MinOf(reports[b][c])

\* The nearest tag was enumerated before a tag that reports the same commit
\* deeper, and kept the commit, at a depth its walk emitted.
C1_Witness ==
    /\ pc = "report"
    /\ \E reports \in {AllReports} :
        \E a, b \in DOMAIN tags, c \in Commits :
            /\ b < a
            /\ PassesFilter(c)
            /\ StrictlyNearest(reports, b, c)
            /\ TagRetained(tags[a])
            /\ reports[a][c] # {}
            /\ MinOf(reports[b][c]) >= 1
            /\ commit_to_tag[c].tag_name = tags[b].name

\* C9: every entry the walker returns for a tag has a depth in 1..--depth
\* that is the length of a parent path from the tag's target to the entry's
\* commit, the walker returns nothing with --depth 0, and every record of
\* the map has a depth in 0..--depth.
C9_DepthSound ==
    /\ pc = "report" =>
        \A lists \in {WalkLists} :
            \A b \in DOMAIN tags :
                /\ \A k \in DOMAIN lists[b] :
                    /\ 1 <= lists[b][k].depth
                    /\ lists[b][k].depth <= args.depth
                    /\ lists[b][k].depth
                            \in PathLens(tags[b].target, lists[b][k].commit)
                /\ (args.depth = 0 => lists[b] = <<>>)
    /\ \A c \in DOMAIN commit_to_tag :
        /\ 0 <= commit_to_tag[c].depth
        /\ commit_to_tag[c].depth <= args.depth

\* A tag's walk returned a commit at a depth above the commit's distance (the
\* depth is one path's length), and the map holds a record at depth --depth.
C9_Witness ==
    /\ pc = "report"
    /\ args.depth >= 2
    /\ \E c \in DOMAIN commit_to_tag : commit_to_tag[c].depth = args.depth
    /\ \E lists \in {WalkLists} :
        \E b \in DOMAIN tags :
            \E k \in DOMAIN lists[b] :
                \E n \in PathLens(tags[b].target, lists[b][k].commit) :
                    n < lists[b][k].depth

\* The tags get_tag_commits has processed.
Processed == IF pc = "tags" THEN 1..(ti - 1) ELSE DOMAIN tags

\* add_if_matches_regex has been called for c: a processed, retained tag
\* reports it (the first report finds no record of c to win the tie-break).
CalledFor(reports, c) ==
    \E b \in Processed : TagRetained(tags[b]) /\ reports[b][c] # {}

C4_RecencyFilter ==
    pc = "report" =>
        \A b \in DOMAIN tags :
            IF ctime[tags[b].target] < now - max_age
            THEN \A c \in DOMAIN commit_to_tag :
                    commit_to_tag[c].tag_name # tags[b].name
            ELSE /\ tags[b].target \in DOMAIN commit_to_tag
                 /\ commit_to_tag[tags[b].target].depth = 0

\* C6: with a pattern that does not compile, get_tag_commits does not
\* return Ok, nothing is printed, and the run ends with the Regex error and
\* exit code 1.
C6_BadPatternFatal ==
    ~args.regex_ok =>
        /\ pc # "report"
        /\ stdout = <<>>
        /\ (pc = "done" => err = "Regex" /\ exit_code = 1)

\* C7: a run that fails (here only a missing commit object makes a run
\* fail: the target of the tag, or an ancestor its walk looks up) ends with
\* the Git error and exit code 1, and has printed nothing.
C7_MissingIsGitError ==
    (pc = "done" /\ exit_code # 0) =>
        /\ err = "Git"
        /\ exit_code = 1
        /\ stdout = <<>>

\* The header lines printed, in order.
IsHeader(line) == line.kind = "header"
Headers == SelectSeq(stdout, IsHeader)

Succeeded == pc = "done" /\ exit_code = 0

\* The headers are in the order of String, one for each tag name of names.
HeadersAre(names) ==
    /\ \A j, k \in DOMAIN Headers :
        j < k => StrLeq(Headers[j].tag, Headers[k].tag)
    /\ {Headers[k].tag : k \in DOMAIN Headers} = names
    /\ Len(Headers) = Cardinality(names)

\* A header has the "(no entries)" suffix exactly when the map attributes
\* no commit to its tag.
SuffixWhenEmpty ==
    \A k \in DOMAIN Headers :
        Headers[k].no_entries <=>
            \A c \in DOMAIN commit_to_tag :
                commit_to_tag[c].tag_name # Headers[k].tag

TagNamesOf == {tags[b].name : b \in DOMAIN tags}

\* C8, as claimed: a successful run has printed one header for each
\* enumerated tag, in the order of String, whatever the flags, with the
\* suffix for a tag that attributed no commit.
C8_HeaderForEveryTag ==
    Succeeded => HeadersAre(TagNamesOf) /\ SuffixWhenEmpty

\* The tag's name contains the --filter text, or the ticket text of a
\* commit attributed to it does.
FilterKeeps(name) ==
    \/ Contains(name, args.filter)
    \/ \E c \in DOMAIN commit_to_tag :
        /\ commit_to_tag[c].tag_name = name
        /\ Contains(commit_to_tag[c].formatted_tickets, args.filter)

\* C8, amended: a successful run has printed, in the order of String, one
\* header for each enumerated tag when --filter is not given, and with
\* --filter one for each tag the filter keeps; the header has the suffix
\* exactly when the tag attributed no commit.
C8_HeaderForEveryKeptTag ==
    Succeeded =>
        /\ HeadersAre({n \in TagNamesOf : ~args.has_filter \/ FilterKeeps(n)})
        /\ SuffixWhenEmpty

\* A run with --filter has ended: the tags were enumerated out of order, one
\* tag got no header and one got a header with the suffix.
C8_Witness ==
    /\ Succeeded
    /\ args.has_filter
    /\ \E a, b \in DOMAIN tags : a < b /\ ~StrLeq(tags[a].name, tags[b].name)
    /\ Len(Headers) < Len(tags)
    /\ \E k \in DOMAIN Headers : Headers[k].no_entries

====
